---- MODULE Spec2Model ----
(***************************************************************************)
(* A model of src/dashboard.py: the Streamlit stock tracker.  One script   *)
(* run (a "rerun") follows every user interaction.  The state is the       *)
(* Google sheet (the Holdings Store), st.session_state.holdings, the       *)
(* DataFrame `edited` of the current run, the lists and locals of the      *)
(* Refresh Prices handler, and what the run has put on the page.           *)
(*                                                                         *)
(* Units.  Python floats are modelled as exact decimals held in integers:  *)
(*   Shares              hundredths of a share   (10 shares   = 1000)      *)
(*   prices, values      cents                   ($150        = 15000)     *)
(*   provider raw price  mills, 1/1000 dollar    ($200        = 200000)    *)
(*   percentages         hundredths of a percent (33.33 %     = 3333)      *)
(* round(x, 2) is rounding to the integer unit, ties to even; the binary   *)
(* representation error of floats is outside the model.                    *)
(***************************************************************************)
EXTENDS Integers, Sequences, FiniteSets, TLC

VARIABLES
    sheet,        \* the worksheet: a sequence of rows, each a sequence of cells
    pc,           \* where the session's script is: start, idle, refresh, save_*
    holdings,     \* st.session_state.holdings (a DataFrame)
    edited,       \* `edited`: after line 60 the same object as holdings
    run,          \* the kind of the latest script run: load, edit, save, refresh
    msgs,         \* st.success / st.error / st.warning of the latest run
    i,            \* rows the Refresh loop has finished
    acc,          \* the seven lists the Refresh loop appends to
    metrics,      \* the three st.metric values and the delta of the latest run
    calls,        \* tickers handed to yf.Ticker during the latest Refresh
    outcomes,     \* what the provider answered for each row of the latest Refresh
    storeCalls,   \* sheet calls made by the latest save_holdings, in order
    saveFailedAt, \* the sheet call that raised in the latest save_holdings, or ""
    lastSaved,    \* the DataFrame of the latest save that reported success
    peer          \* a second session (another device) inside save_holdings

vars == <<sheet, pc, holdings, edited, run, msgs, i, acc, metrics, calls,
          outcomes, storeCalls, saveFailedAt, lastSaved, peer>>

\* Rows a table may hold in the model.
MaxRows == 2

----------------------------------------------------------------------------
\* Python values

\* None (and a missing dict key); a present number x is <<x>>.
None == <<>>

Some(x) == <<x>>

\* Python truthiness of None-or-number: `if price`, `a or b`.
Truthy(o) == o # None /\ o[1] # 0

\* A DataFrame / worksheet cell: a string, a number, or missing (NaN, None, "").
NaN == [s |-> "", n |-> None]

StrCell(t) == [s |-> t, n |-> None]

NumCell(o) == [s |-> "", n |-> o]

\* pd.notna
notna(c) == c # NaN

\* round(n / d, 0) on exact values, ties to even; d > 0.
RoundDiv(n, d) ==
    LET q == n \div d
        r == n - q * d
    IN  IF 2 * r < d THEN q
        ELSE IF 2 * r > d THEN q + 1
        ELSE IF q % 2 = 0 THEN q ELSE q + 1

----------------------------------------------------------------------------
\* DataFrames

BaseCols == <<"Ticker", "Shares", "Buy Price ($)", "Your Target Price ($)">>

DerivedCols == <<"Current Price", "Current Value ($)", "Total Cost ($)",
                 "Profit/Loss ($)", "Profit/Loss (%)", "Analyst Target",
                 "Analyst Upside (%)">>

\* pd.DataFrame(columns=[...four names...])
EmptyTable == [cols |-> BaseCols, vals |-> <<>>]

HasCol(t, name) == \E k \in 1..Len(t.cols) : t.cols[k] = name

ColIdx(t, name) == CHOOSE k \in 1..Len(t.cols) : t.cols[k] = name

\* row[name] for the r-th row
Cell(t, r, name) == t.vals[r][ColIdx(t, name)]

\* One editor row: ticker text and three optional numbers.
Row(ticker, shares, buy, target) ==
    <<StrCell(ticker), NumCell(shares), NumCell(buy), NumCell(target)>>

\* The tables of at most MaxRows rows over a set of rows.
TablesOf(rows) ==
    {[cols |-> BaseCols, vals |-> v] : v \in UNION {[1..n -> rows] : n \in 0..MaxRows}}

----------------------------------------------------------------------------
\* The Market Data Provider

\* stock.info: the three keys the handler reads (mills), each possibly missing.
Info(cp, rmp, tmp) ==
    [throws |-> FALSE, currentPrice |-> cp, regularMarketPrice |-> rmp,
     targetMeanPrice |-> tmp]

\* yf.Ticker(t).info raises.
Throws == [throws |-> TRUE, currentPrice |-> None, regularMarketPrice |-> None,
           targetMeanPrice |-> None]

\* The row made no call (empty ticker).
NoCall == [throws |-> FALSE, currentPrice |-> None, regularMarketPrice |-> None,
           targetMeanPrice |-> None]

\* The provider's answers over given raw prices and targets, and a failure.
OutcomesOf(cps, rmps, tmps) ==
    {Throws} \cup {Info(cp, rmp, tmp) : cp \in cps, rmp \in rmps, tmp \in tmps}

----------------------------------------------------------------------------
\* The Refresh Prices handler, one row (lines 76-105)

\* str(x).strip().upper() on the ticker texts of the model.
Normalise(t) ==
    CASE t = "aapl" -> "AAPL"
      [] t = " "    -> ""
      [] OTHER      -> t

\* line 76
ticker_of(t, r) ==
    IF notna(Cell(t, r, "Ticker")) THEN Normalise(Cell(t, r, "Ticker").s) ELSE ""

\* line 77
shares_of(t, r) ==
    IF notna(Cell(t, r, "Shares")) THEN Cell(t, r, "Shares").n[1] ELSE 0

\* line 78
buy_price_of(t, r) ==
    IF notna(Cell(t, r, "Buy Price ($)")) THEN Cell(t, r, "Buy Price ($)").n[1] ELSE 0

\* lines 81, 83-88 and the except: price stays None when the ticker is empty or
\* the fetch raises.
price_of(ticker, o) ==
    IF ticker = "" \/ o.throws THEN None
    ELSE LET raw == IF Truthy(o.currentPrice) THEN o.currentPrice
                    ELSE o.regularMarketPrice
         IN  IF Truthy(raw) THEN Some(RoundDiv(raw[1], 10)) ELSE None

\* lines 82, 89-90
analyst_of(ticker, o) ==
    IF ticker = "" \/ o.throws THEN None
    ELSE IF Truthy(o.targetMeanPrice)
         THEN Some(RoundDiv(o.targetMeanPrice[1], 10)) ELSE None

Msg(kind, what, ticker) == [kind |-> kind, what |-> what, ticker |-> ticker]

\* lines 91-92: st.error(f"Error fetching {ticker}: {e}")
fetch_errors(ticker, o) ==
    IF ticker # "" /\ o.throws THEN <<Msg("error", "fetch", ticker)>> ELSE <<>>

\* lines 83, 85 without the `if ticker:` of line 83
fetch_calls_unguarded(ticker) == <<ticker>>

\* lines 83, 85: the call made for the row, if any
fetch_calls(ticker) == IF ticker # "" THEN <<ticker>> ELSE <<>>

\* line 95
value_of(price, shares) ==
    IF Truthy(price) /\ shares # 0 THEN Some(RoundDiv(price[1] * shares, 100)) ELSE None

\* line 97 with the test of buy_price left out
cost_of_shares_only(buy_price, shares) ==
    IF shares # 0 THEN Some(RoundDiv(buy_price * shares, 100)) ELSE None

\* line 97
cost_of(buy_price, shares) ==
    IF buy_price # 0 /\ shares # 0 THEN Some(RoundDiv(buy_price * shares, 100)) ELSE None

\* line 99
profit_dollar_of(value, cost) ==
    IF value # None /\ cost # None THEN Some(value[1] - cost[1]) ELSE None

\* line 101 truncating instead of rounding
profit_pct_truncated(profit_dollar, cost) ==
    IF profit_dollar # None /\ Truthy(cost) /\ cost[1] # 0
    THEN Some((profit_dollar[1] * 10000) \div cost[1]) ELSE None

\* line 101
profit_pct_of(profit_dollar, cost) ==
    IF profit_dollar # None /\ Truthy(cost) /\ cost[1] # 0
    THEN Some(RoundDiv(profit_dollar[1] * 10000, cost[1])) ELSE None

\* line 104
upside_of(analyst, price) ==
    IF Truthy(analyst) /\ Truthy(price) /\ price[1] > 0
    THEN Some(RoundDiv((analyst[1] - price[1]) * 10000, price[1])) ELSE None

\* lines 67-73
EmptyAcc ==
    [current_prices |-> <<>>, current_values |-> <<>>, total_costs |-> <<>>,
     profits_dollar |-> <<>>, profits_pct |-> <<>>, analyst_targets |-> <<>>,
     analyst_upside |-> <<>>]

\* lines 94-105 without the resets of lines 81-82: after a failed or skipped
\* fetch, price and analyst keep the previous iteration's values.
AppendRowStale(a, t, r, o) ==
    LET ticker        == ticker_of(t, r)
        shares        == shares_of(t, r)
        buy_price     == buy_price_of(t, r)
        stale         == ticker = "" \/ o.throws
        price         == IF stale /\ a.current_prices # <<>>
                         THEN a.current_prices[Len(a.current_prices)]
                         ELSE price_of(ticker, o)
        analyst       == IF stale /\ a.analyst_targets # <<>>
                         THEN a.analyst_targets[Len(a.analyst_targets)]
                         ELSE analyst_of(ticker, o)
        value         == value_of(price, shares)
        cost          == cost_of(buy_price, shares)
        profit_dollar == profit_dollar_of(value, cost)
    IN  [current_prices  |-> Append(a.current_prices, price),
         current_values  |-> Append(a.current_values, value),
         total_costs     |-> Append(a.total_costs, cost),
         profits_dollar  |-> Append(a.profits_dollar, profit_dollar),
         profits_pct     |-> Append(a.profits_pct, profit_pct_of(profit_dollar, cost)),
         analyst_targets |-> Append(a.analyst_targets, analyst),
         analyst_upside  |-> Append(a.analyst_upside, upside_of(analyst, price))]

\* lines 94-105: the seven appends of one iteration
AppendRow(a, t, r, o) ==
    LET ticker        == ticker_of(t, r)
        shares        == shares_of(t, r)
        buy_price     == buy_price_of(t, r)
        price         == price_of(ticker, o)
        analyst       == analyst_of(ticker, o)
        value         == value_of(price, shares)
        cost          == cost_of(buy_price, shares)
        profit_dollar == profit_dollar_of(value, cost)
    IN  [current_prices  |-> Append(a.current_prices, price),
         current_values  |-> Append(a.current_values, value),
         total_costs     |-> Append(a.total_costs, cost),
         profits_dollar  |-> Append(a.profits_dollar, profit_dollar),
         profits_pct     |-> Append(a.profits_pct, profit_pct_of(profit_dollar, cost)),
         analyst_targets |-> Append(a.analyst_targets, analyst),
         analyst_upside  |-> Append(a.analyst_upside, upside_of(analyst, price))]

\* The list lines 107-113 assign to a derived column.
DerivedList(a, name) ==
    CASE name = "Current Price"      -> a.current_prices
      [] name = "Current Value ($)"  -> a.current_values
      [] name = "Total Cost ($)"     -> a.total_costs
      [] name = "Profit/Loss ($)"    -> a.profits_dollar
      [] name = "Profit/Loss (%)"    -> a.profits_pct
      [] name = "Analyst Target"     -> a.analyst_targets
      [] name = "Analyst Upside (%)" -> a.analyst_upside

IsDerived(name) == \E k \in 1..Len(DerivedCols) : DerivedCols[k] = name

\* lines 107-113: seven times df[name] = list.  Each assignment replaces the
\* column where the table has it and appends it as the last column where not.
WithDerived(t, a) ==
    LET Missing(name) == ~HasCol(t, name)
        cols == t.cols \o SelectSeq(DerivedCols, Missing)
    IN  [cols |-> cols,
         vals |-> [r \in 1..Len(t.vals) |->
                     [k \in 1..Len(cols) |->
                        IF IsDerived(cols[k]) THEN NumCell(DerivedList(a, cols[k])[r])
                        ELSE t.vals[r][k]]]]

----------------------------------------------------------------------------
\* The totals (lines 115-122)

RECURSIVE Sum(_)
\* sum(...) over present numbers
Sum(list) == IF list = <<>> THEN 0 ELSE Head(list)[1] + Sum(Tail(list))

\* line 115: `if v`
KeepValue(v) == Truthy(v)

\* line 116: `if c`
KeepCost(c) == Truthy(c)

\* line 117 written as `if p and p > 0`
KeepProfitPositive(p) == Truthy(p) /\ p[1] > 0

\* line 117: `if p is not None`
KeepProfit(p) == p # None

\* line 122: the delta, as "+.2f" shows it
DeltaPct(total_profit, total_cost) ==
    IF total_cost # 0 THEN RoundDiv(total_profit * 10000, total_cost) ELSE 0

NoMetrics ==
    [shown |-> FALSE, total_value |-> 0, total_cost |-> 0, total_profit |-> 0,
     delta |-> 0]

Metrics(a) ==
    LET total_value  == Sum(SelectSeq(a.current_values, KeepValue))
        total_cost   == Sum(SelectSeq(a.total_costs, KeepCost))
        total_profit == Sum(SelectSeq(a.profits_dollar, KeepProfit))
    IN  [shown |-> TRUE, total_value |-> total_value, total_cost |-> total_cost,
         total_profit |-> total_profit, delta |-> DeltaPct(total_profit, total_cost)]

----------------------------------------------------------------------------
\* The second session, when there is none.
PeerOff == [pc |-> "off", df |-> EmptyTable, msgs |-> <<>>]

\* What a script run starts from: fresh handler locals and nothing yet rendered.
FreshRun ==
    /\ i' = 0
    /\ acc' = EmptyAcc
    /\ metrics' = NoMetrics
    /\ calls' = <<>>
    /\ outcomes' = <<>>
    /\ storeCalls' = <<>>
    /\ saveFailedAt' = ""

\* The user clicks Refresh Prices: a rerun in which line 65 is true.  The editor
\* returns the session's table (line 48) and line 60 stores that object.
ClickRefresh ==
    /\ pc = "idle"
    /\ pc' = "refresh"
    /\ run' = "refresh"
    /\ edited' = holdings
    /\ holdings' = holdings
    /\ FreshRun
    /\ msgs' = <<>>
    /\ UNCHANGED <<sheet, lastSaved, peer>>

\* One iteration of the loop of line 75, the provider answering o.
RefreshRow(o) ==
    /\ pc = "refresh"
    /\ i < Len(edited.vals)
    /\ LET ticker == ticker_of(edited, i + 1)
           ans    == IF ticker = "" THEN NoCall ELSE o
       IN  /\ calls' = calls \o fetch_calls(ticker)
           /\ outcomes' = Append(outcomes, ans)
           /\ msgs' = msgs \o fetch_errors(ticker, ans)
           /\ acc' = AppendRow(acc, edited, i + 1, ans)
    /\ i' = i + 1
    /\ UNCHANGED <<sheet, pc, holdings, edited, run, metrics, storeCalls,
                   saveFailedAt, lastSaved, peer>>

\* The loop has ended: lines 107-127.  `edited` is the object line 60 put in
\* st.session_state, so the seven assignments change holdings too.
RefreshFinish ==
    /\ pc = "refresh"
    /\ i = Len(edited.vals)
    /\ edited' = WithDerived(edited, acc)
    /\ holdings' = edited'
    /\ metrics' = Metrics(acc)
    /\ pc' = "idle"
    /\ UNCHANGED <<sheet, run, msgs, i, acc, calls, outcomes, storeCalls,
                   saveFailedAt, lastSaved, peer>>

----------------------------------------------------------------------------
\* The Holdings Store (gspread worksheet).  A call that raises changes nothing.

\* sheet.clear() leaving the first row (clearing the data range only)
sheet_clear_data_only(sh) == IF sh = <<>> THEN <<>> ELSE <<sh[1]>>

\* sheet.clear()
sheet_clear(sh) == <<>>

\* sheet.append_row(values)
sheet_append_row(sh, values) == Append(sh, values)

\* sheet.append_rows(values)
sheet_append_rows(sh, values) == sh \o values

\* df.columns.tolist()
columns_tolist(df) == [k \in 1..Len(df.cols) |-> StrCell(df.cols[k])]

\* df.values.tolist()
values_tolist(df) == df.vals

\* pd.to_numeric(x, errors="coerce") then .fillna(0.0), on one cell
to_numeric_fillna(c) == IF c.n # None THEN c ELSE NumCell(Some(0))

NumericCols == {"Shares", "Buy Price ($)", "Your Target Price ($)"}

\* sheet.get_all_records(): the rows under the header row, keyed by it.
get_all_records(sh) == IF Len(sh) <= 1 THEN <<>> ELSE SubSeq(sh, 2, Len(sh))

\* lines 25-28 raise (KeyError) when the header lacks one of the three columns.
LoadRaises(sh, ok) ==
    \/ ~ok
    \/ /\ get_all_records(sh) # <<>>
       /\ \E c \in NumericCols : \A k \in 1..Len(sh[1]) : sh[1][k].s # c

\* load_holdings (lines 21-34); ok: whether the read of the sheet succeeds.
load_holdings(sh, ok) ==
    IF LoadRaises(sh, ok) \/ get_all_records(sh) = <<>> THEN EmptyTable
    ELSE LET cols == [k \in 1..Len(sh[1]) |-> sh[1][k].s]
             recs == get_all_records(sh)
         IN  [cols |-> cols,
              vals |-> [r \in 1..Len(recs) |->
                          [k \in 1..Len(cols) |->
                             IF cols[k] \in NumericCols THEN to_numeric_fillna(recs[r][k])
                             ELSE recs[r][k]]]]

\* line 33: st.warning
load_msgs(sh, ok) == IF LoadRaises(sh, ok) THEN <<Msg("warning", "load", "")>> ELSE <<>>

\* lines 42-43 as `except: pass`
save_except_silent(m) == m

\* lines 42-43: st.error(f"Save failed: {e}")
save_except(m) == Append(m, Msg("error", "save", ""))

\* line 41: st.success
save_success(m) == Append(m, Msg("success", "save", ""))

NoSave == [ok |-> FALSE, df |-> EmptyTable]

----------------------------------------------------------------------------
\* The session's script runs

\* The first run of a session: line 45 is true, load_holdings runs, no button.
Load(ok) ==
    /\ pc = "start"
    /\ holdings' = load_holdings(sheet, ok)
    /\ edited' = holdings'
    /\ pc' = "idle"
    /\ run' = "load"
    /\ FreshRun
    /\ msgs' = load_msgs(sheet, ok)
    /\ UNCHANGED <<sheet, lastSaved, peer>>

\* The user adds a row in the editor: a rerun with no button; line 60 stores the
\* editor's result.  Columns other than the four edited ones start empty.
AddRow(row) ==
    /\ pc = "idle"
    /\ Len(holdings.vals) < MaxRows
    /\ edited' = [holdings EXCEPT !.vals =
                    Append(@, [k \in 1..Len(holdings.cols) |->
                                  IF k <= Len(row) THEN row[k] ELSE NaN])]
    /\ holdings' = edited'
    /\ run' = "edit"
    /\ FreshRun
    /\ msgs' = <<>>
    /\ UNCHANGED <<sheet, pc, lastSaved, peer>>

\* The user deletes the k-th row in the editor.
DeleteRow(k) ==
    /\ pc = "idle"
    /\ k \in 1..Len(holdings.vals)
    /\ edited' = [holdings EXCEPT !.vals =
                    SubSeq(@, 1, k - 1) \o SubSeq(@, k + 1, Len(@))]
    /\ holdings' = edited'
    /\ run' = "edit"
    /\ FreshRun
    /\ msgs' = <<>>
    /\ UNCHANGED <<sheet, pc, lastSaved, peer>>

\* The user clicks Save: a rerun in which line 62 is true; save_holdings(edited).
ClickSave ==
    /\ pc = "idle"
    /\ pc' = "save_clear"
    /\ run' = "save"
    /\ edited' = holdings
    /\ holdings' = holdings
    /\ FreshRun
    /\ msgs' = <<>>
    /\ UNCHANGED <<sheet, lastSaved, peer>>

\* line 38; ok: whether the call succeeds
SaveClear(ok) ==
    /\ pc = "save_clear"
    /\ storeCalls' = Append(storeCalls, "clear")
    /\ IF ok
       THEN /\ sheet' = sheet_clear(sheet)
            /\ pc' = "save_header"
            /\ lastSaved' = NoSave
            /\ UNCHANGED <<msgs, saveFailedAt>>
       ELSE /\ msgs' = save_except(msgs)
            /\ saveFailedAt' = "clear"
            /\ pc' = "idle"
            /\ UNCHANGED <<sheet, lastSaved>>
    /\ UNCHANGED <<holdings, edited, run, i, acc, metrics, calls, outcomes, peer>>

\* line 39
SaveHeader(ok) ==
    /\ pc = "save_header"
    /\ storeCalls' = Append(storeCalls, "append_row")
    /\ IF ok
       THEN /\ sheet' = sheet_append_row(sheet, columns_tolist(edited))
            /\ pc' = "save_rows"
            /\ UNCHANGED <<msgs, saveFailedAt>>
       ELSE /\ msgs' = save_except(msgs)
            /\ saveFailedAt' = "append_row"
            /\ pc' = "idle"
            /\ UNCHANGED sheet
    /\ UNCHANGED <<holdings, edited, run, i, acc, metrics, calls, outcomes,
                   lastSaved, peer>>

\* lines 40-41
SaveRows(ok) ==
    /\ pc = "save_rows"
    /\ storeCalls' = Append(storeCalls, "append_rows")
    /\ IF ok
       THEN /\ sheet' = sheet_append_rows(sheet, values_tolist(edited))
            /\ msgs' = save_success(msgs)
            /\ lastSaved' = [ok |-> TRUE, df |-> edited]
            /\ UNCHANGED saveFailedAt
       ELSE /\ msgs' = save_except(msgs)
            /\ saveFailedAt' = "append_rows"
            /\ UNCHANGED <<sheet, lastSaved>>
    /\ pc' = "idle"
    /\ UNCHANGED <<holdings, edited, run, i, acc, metrics, calls, outcomes, peer>>

\* The browser session ends; the next one starts with an empty st.session_state.
NewSession ==
    /\ pc = "idle"
    /\ pc' = "start"
    /\ holdings' = EmptyTable
    /\ edited' = EmptyTable
    /\ run' = "none"
    /\ FreshRun
    /\ msgs' = <<>>
    /\ UNCHANGED <<sheet, lastSaved, peer>>

----------------------------------------------------------------------------
\* A second session running save_holdings(peer.df) on the same sheet

PeerClear(ok) ==
    /\ peer.pc = "save_clear"
    /\ IF ok
       THEN /\ sheet' = sheet_clear(sheet)
            /\ peer' = [peer EXCEPT !.pc = "save_header"]
            /\ lastSaved' = NoSave
       ELSE /\ peer' = [peer EXCEPT !.pc = "done", !.msgs = save_except(@)]
            /\ UNCHANGED <<sheet, lastSaved>>
    /\ UNCHANGED <<pc, holdings, edited, run, msgs, i, acc, metrics, calls,
                   outcomes, storeCalls, saveFailedAt>>

PeerHeader(ok) ==
    /\ peer.pc = "save_header"
    /\ IF ok
       THEN /\ sheet' = sheet_append_row(sheet, columns_tolist(peer.df))
            /\ peer' = [peer EXCEPT !.pc = "save_rows"]
       ELSE /\ peer' = [peer EXCEPT !.pc = "done", !.msgs = save_except(@)]
            /\ UNCHANGED sheet
    /\ UNCHANGED <<pc, holdings, edited, run, msgs, i, acc, metrics, calls,
                   outcomes, storeCalls, saveFailedAt, lastSaved>>

PeerRows(ok) ==
    /\ peer.pc = "save_rows"
    /\ IF ok
       THEN /\ sheet' = sheet_append_rows(sheet, values_tolist(peer.df))
            /\ peer' = [peer EXCEPT !.pc = "done", !.msgs = save_success(@)]
       ELSE /\ peer' = [peer EXCEPT !.pc = "done", !.msgs = save_except(@)]
            /\ UNCHANGED sheet
    /\ UNCHANGED <<pc, holdings, edited, run, msgs, i, acc, metrics, calls,
                   outcomes, storeCalls, saveFailedAt, lastSaved>>

----------------------------------------------------------------------------
\* An idle session holding table t, nothing saved, the second session being p.
IdleWith(t, p) ==
    /\ sheet = <<>>
    /\ pc = "idle"
    /\ holdings = t
    /\ edited = t
    /\ run = "load"
    /\ msgs = <<>>
    /\ i = 0
    /\ acc = EmptyAcc
    /\ metrics = NoMetrics
    /\ calls = <<>>
    /\ outcomes = <<>>
    /\ storeCalls = <<>>
    /\ saveFailedAt = ""
    /\ lastSaved = NoSave
    /\ peer = p

\* A session in which the user only refreshes, over every small table.

RefreshTickers == {"", " ", "aapl", "XYZ"}

RefreshRows ==
    {Row(t, Some(1000), Some(1500), None) : t \in RefreshTickers}
        \cup {Row("XYZ", None, Some(1500), None), Row("XYZ", Some(500), None, None)}

RefreshOutcomes == {Throws, Info(Some(20000), None, Some(25000)), Info(None, Some(1004), None)}

InitRefresh == \E t \in TablesOf(RefreshRows) : IdleWith(t, PeerOff)

NextRefresh == ClickRefresh \/ (\E o \in RefreshOutcomes : RefreshRow(o)) \/ RefreshFinish

SpecRefresh == InitRefresh /\ [][NextRefresh]_vars

----------------------------------------------------------------------------
\* The same session under the scheduling of the loop: the handler is sequential
\* code and every provider call returns or raises, so a loop that has begun
\* takes each of its iterations and then lines 107-127.

LoopRows == {Row(t, Some(1000), Some(1500), None) : t \in RefreshTickers}

LoopOutcomes == {Throws, Info(Some(20000), None, Some(25000))}

InitLoop == \E t \in TablesOf(LoopRows) : IdleWith(t, PeerOff)

LoopStep == (\E o \in LoopOutcomes : RefreshRow(o)) \/ RefreshFinish

NextLoop == ClickRefresh \/ LoopStep

SpecLoop == InitLoop /\ [][NextLoop]_vars /\ WF_vars(LoopStep)

----------------------------------------------------------------------------
\* The valuation of one row, over a wide range of holdings and snapshots.

ValShares == {None, Some(0), Some(1), Some(50), Some(1000)}

ValBuyPrices == {None, Some(0), Some(1), Some(150), Some(15000)}

ValRows == {Row(t, s, b, None) : t \in {"", "AAPL"}, s \in ValShares, b \in ValBuyPrices}

ValOutcomes ==
    OutcomesOf({None, Some(0), Some(4), Some(1005), Some(1015), Some(200000)},
               {None, Some(1500)}, {None, Some(0), Some(250000)})

InitVal == \E r \in ValRows : IdleWith([cols |-> BaseCols, vals |-> <<r>>], PeerOff)

NextVal == ClickRefresh \/ (\E o \in ValOutcomes : RefreshRow(o)) \/ RefreshFinish

SpecVal == InitVal /\ [][NextVal]_vars

----------------------------------------------------------------------------
\* What the page shows once a Refresh has ended

RefreshDone == pc = "idle" /\ run = "refresh" /\ metrics.shown

\* The r-th row's value in a derived column of the table shown (line 124).
Shown(r, name) == Cell(edited, r, name).n

RowsShown == 1..Len(edited.vals)

ZeroOrMissing(c) == c = NaN \/ c.n = Some(0)

\* The table holding only the r-th row of t.
OnlyRow(t, r) == [cols |-> t.cols, vals |-> <<t.vals[r]>>]

\* What a Refresh over the r-th row alone appends, the provider answering o.
Alone(r, o) == AppendRow(EmptyAcc, OnlyRow(edited, r), 1, o)

\* The seven derived cells of row r are those of a Refresh over that row alone.
AsAlone(r) ==
    LET a == Alone(r, outcomes[r])
    IN  /\ Shown(r, "Current Price")      = a.current_prices[1]
        /\ Shown(r, "Current Value ($)")  = a.current_values[1]
        /\ Shown(r, "Total Cost ($)")     = a.total_costs[1]
        /\ Shown(r, "Profit/Loss ($)")    = a.profits_dollar[1]
        /\ Shown(r, "Profit/Loss (%)")    = a.profits_pct[1]
        /\ Shown(r, "Analyst Target")     = a.analyst_targets[1]
        /\ Shown(r, "Analyst Upside (%)") = a.analyst_upside[1]

\* C1: after a Refresh, a row whose fetch raised shows no current price, value,
\* profit, profit percentage, analyst target or upside, and an error naming its
\* ticker is on the page; every row shows what a Refresh over that row alone would.
C1_FetchFailureIsPerRow ==
    RefreshDone =>
        \A r \in RowsShown :
            /\ outcomes[r].throws =>
                  /\ Shown(r, "Current Price") = None
                  /\ Shown(r, "Current Value ($)") = None
                  /\ Shown(r, "Profit/Loss ($)") = None
                  /\ Shown(r, "Profit/Loss (%)") = None
                  /\ Shown(r, "Analyst Target") = None
                  /\ Shown(r, "Analyst Upside (%)") = None
                  /\ \E m \in 1..Len(msgs) :
                        msgs[m] = Msg("error", "fetch", ticker_of(edited, r))
            /\ AsAlone(r)

\* A Refresh of two rows has ended: the first fetch raised, the second row is priced.
C1_Witness ==
    /\ RefreshDone
    /\ Len(edited.vals) = 2
    /\ outcomes[1].throws
    /\ Shown(2, "Current Price") # None
    /\ Shown(2, "Profit/Loss (%)") # None

\* C6 as claimed: the profit percentage is absent when the total cost is absent or
\* zero, and in every other case present and round(profitAbs / totalCost * 100, 2).
C6_PctPresentWheneverCostNonzero ==
    RefreshDone =>
        \A r \in RowsShown :
            LET cost   == Shown(r, "Total Cost ($)")
                profit == Shown(r, "Profit/Loss ($)")
                pct    == Shown(r, "Profit/Loss (%)")
            IN  IF cost = None \/ cost[1] = 0
                THEN pct = None
                ELSE /\ pct # None
                     /\ profit # None
                     /\ pct[1] = RoundDiv(profit[1] * 10000, cost[1])

\* C6, amended: the profit percentage is absent when the total cost is absent or
\* zero or the profit is absent (no current value), and in every other case
\* present and round(profitAbs / totalCost * 100, 2).
C6_PctAbsentOrRounded ==
    RefreshDone =>
        \A r \in RowsShown :
            LET cost   == Shown(r, "Total Cost ($)")
                profit == Shown(r, "Profit/Loss ($)")
                pct    == Shown(r, "Profit/Loss (%)")
            IN  IF cost = None \/ cost[1] = 0 \/ profit = None
                THEN pct = None
                ELSE pct = Some(RoundDiv(profit[1] * 10000, cost[1]))

\* 10 shares bought at $150 and priced at $200: cost $1500, profit 33.33 %.
C6_Witness ==
    /\ RefreshDone
    /\ Shown(1, "Total Cost ($)") = Some(150000)
    /\ Shown(1, "Profit/Loss ($)") = Some(50000)
    /\ Shown(1, "Profit/Loss (%)") = Some(3333)

\* C7: a row whose shares or buy price is zero or missing shows no total cost, no
\* profit and no profit percentage, whatever the snapshot; any other row shows
\* total cost round(buyPrice * shares, 2).
C7_ZeroCostIsAbsent ==
    RefreshDone =>
        \A r \in RowsShown :
            LET sh  == Cell(edited, r, "Shares")
                buy == Cell(edited, r, "Buy Price ($)")
            IN  IF ZeroOrMissing(sh) \/ ZeroOrMissing(buy)
                THEN /\ Shown(r, "Total Cost ($)") = None
                     /\ Shown(r, "Profit/Loss ($)") = None
                     /\ Shown(r, "Profit/Loss (%)") = None
                ELSE Shown(r, "Total Cost ($)") = Some(RoundDiv(buy.n[1] * sh.n[1], 100))

\* 10 shares with buy price 0, priced by the provider: a value but no cost.
C7_Witness ==
    /\ RefreshDone
    /\ Cell(edited, 1, "Shares").n = Some(1000)
    /\ Cell(edited, 1, "Buy Price ($)").n = Some(0)
    /\ Shown(1, "Current Value ($)") # None
    /\ Shown(1, "Total Cost ($)") = None

RECURSIVE SumPresent(_, _)
\* The sum of the present values of column `name` over the first k rows shown.
SumPresent(name, k) ==
    IF k = 0 THEN 0
    ELSE (IF Shown(k, name) = None THEN 0 ELSE Shown(k, name)[1]) + SumPresent(name, k - 1)

\* C8: after a Refresh each total is the sum of the present values of its column
\* (0 when there is none), and the percentage is total_profit / total_cost * 100
\* when total_cost is nonzero and 0 otherwise.
C8_TotalsSumPresentValues ==
    RefreshDone =>
        LET n == Len(edited.vals)
            v == SumPresent("Current Value ($)", n)
            c == SumPresent("Total Cost ($)", n)
            p == SumPresent("Profit/Loss ($)", n)
        IN  /\ metrics.total_value = v
            /\ metrics.total_cost = c
            /\ metrics.total_profit = p
            /\ metrics.delta = IF c # 0 THEN RoundDiv(p * 10000, c) ELSE 0

\* Two rows, one with a cost and a loss, one with neither a value nor a cost.
C8_Witness ==
    /\ RefreshDone
    /\ Len(edited.vals) = 2
    /\ \E r \in RowsShown : Shown(r, "Total Cost ($)") = None
                            /\ Shown(r, "Current Value ($)") = None
    /\ \E r \in RowsShown : Shown(r, "Profit/Loss ($)") # None
                            /\ Shown(r, "Profit/Loss ($)")[1] < 0
    /\ metrics.total_profit < 0

RECURSIVE TickersUpTo(_)
\* The non-empty tickers of the first k rows, in table order.
TickersUpTo(k) ==
    IF k = 0 THEN <<>>
    ELSE TickersUpTo(k - 1) \o
         (IF ticker_of(edited, k) = "" THEN <<>> ELSE <<ticker_of(edited, k)>>)

\* While a Refresh runs and when it has ended: the provider has been called once
\* for each non-empty ticker of the rows visited, in table order, and each list
\* holds one entry per visited row; at the end every row has been visited and the
\* table shows, on each row, the values derived from that row.
C9_OneCallPerRowInOrder ==
    (pc = "refresh" \/ RefreshDone) =>
        /\ i \in 0..Len(edited.vals)
        /\ calls = TickersUpTo(i)
        /\ Len(outcomes) = i
        /\ Len(acc.current_prices) = i
        /\ Len(acc.analyst_upside) = i
        /\ RefreshDone =>
              /\ i = Len(edited.vals)
              /\ Len(edited.cols) = Len(BaseCols) + Len(DerivedCols)
              /\ \A r \in RowsShown : Len(edited.vals[r]) = Len(edited.cols) /\ AsAlone(r)

\* C9: a Refresh over N rows runs to completion, visiting the rows in order with
\* exactly one provider call per non-empty ticker and none for an empty one,
\* never repeating a call, and ends with N derived rows, the i-th for the i-th row.
C9_RefreshRunsToCompletion ==
    [] C9_OneCallPerRowInOrder /\ ((pc = "refresh") ~> RefreshDone)

\* A Refresh of two rows has ended: an empty ticker (no call) and a fetch that raised.
C9_Witness ==
    /\ RefreshDone
    /\ Len(edited.vals) = 2
    /\ ticker_of(edited, 1) = ""
    /\ outcomes[2].throws
    /\ Len(calls) = 1

----------------------------------------------------------------------------
\* One session at a time on the sheet: the whole application.

SessionRows == {Row("AAPL", Some(1000), Some(15000), Some(20000)),
                Row("XYZ", Some(500), None, None)}

SessionOutcomes == {Throws, Info(Some(200000), None, Some(250000))}

\* A sheet as a successful save_holdings(df) leaves it.
SheetOf(df) == <<columns_tolist(df)>> \o values_tolist(df)

Init ==
    /\ sheet \in {<<>>} \cup {SheetOf(t) : t \in TablesOf(SessionRows)}
    /\ pc = "start"
    /\ holdings = EmptyTable
    /\ edited = EmptyTable
    /\ run = "none"
    /\ msgs = <<>>
    /\ i = 0
    /\ acc = EmptyAcc
    /\ metrics = NoMetrics
    /\ calls = <<>>
    /\ outcomes = <<>>
    /\ storeCalls = <<>>
    /\ saveFailedAt = ""
    /\ lastSaved = NoSave
    /\ peer = PeerOff

Next ==
    \/ \E ok \in BOOLEAN : Load(ok)
    \/ \E row \in SessionRows : AddRow(row)
    \/ \E k \in 1..MaxRows : DeleteRow(k)
    \/ ClickSave
    \/ \E ok \in BOOLEAN : SaveClear(ok)
    \/ \E ok \in BOOLEAN : SaveHeader(ok)
    \/ \E ok \in BOOLEAN : SaveRows(ok)
    \/ ClickRefresh
    \/ \E o \in SessionOutcomes : RefreshRow(o)
    \/ RefreshFinish
    \/ NewSession

Spec == Init /\ [][Next]_vars

----------------------------------------------------------------------------
\* Two sessions saving at once: this session clicks Save while a second one is
\* inside save_holdings; the sheet calls of the two interleave freely.

InitConc ==
    \E t \in TablesOf(SessionRows), u \in TablesOf(SessionRows) :
        IdleWith(t, [pc |-> "save_clear", df |-> u, msgs |-> <<>>])

NextConc ==
    \/ ClickSave
    \/ \E ok \in BOOLEAN : SaveClear(ok)
    \/ \E ok \in BOOLEAN : SaveHeader(ok)
    \/ \E ok \in BOOLEAN : SaveRows(ok)
    \/ \E ok \in BOOLEAN : PeerClear(ok)
    \/ \E ok \in BOOLEAN : PeerHeader(ok)
    \/ \E ok \in BOOLEAN : PeerRows(ok)

SpecConc == InitConc /\ [][NextConc]_vars

----------------------------------------------------------------------------
\* Claims about the store

\* The four edited columns of a table, row by row.
BaseView(t) ==
    [r \in 1..Len(t.vals) |-> [k \in 1..Len(BaseCols) |-> Cell(t, r, BaseCols[k])]]

Reported(m, kind, what) == \E k \in 1..Len(m) : m[k] = Msg(kind, what, "")

\* C2: the sheet only ever holds the four columns Ticker, Shares, Buy Price ($),
\* Your Target Price ($), and the table of a fresh load has exactly those columns.
C2_StoreHoldsOnlyBaseColumns ==
    /\ \A r \in 1..Len(sheet) : Len(sheet[r]) = Len(BaseCols)
    /\ sheet # <<>> => sheet[1] = columns_tolist(EmptyTable)
    /\ (pc = "idle" /\ run = "load") => holdings.cols = BaseCols

\* C3: a load in a fresh session after a save that reported success returns the
\* saved rows in order with the same Ticker, Shares, Buy Price and Your Target
\* Price, absent values included.
C3_SaveThenLoadIsIdentity ==
    (pc = "idle" /\ run = "load" /\ msgs = <<>> /\ lastSaved.ok) =>
        BaseView(holdings) = BaseView(lastSaved.df)

\* C4: when this session's save and the second session's save have both reported
\* success, the sheet holds one header row and the rows of one of the two tables.
C4_LastWriterWins ==
    ( /\ pc = "idle" /\ run = "save" /\ Reported(msgs, "success", "save")
      /\ peer.pc = "done" /\ Reported(peer.msgs, "success", "save") ) =>
        sheet \in {SheetOf(edited), SheetOf(peer.df)}

\* A save_holdings of this session has ended in its except branch.
SaveFailed == run = "save" /\ saveFailedAt # ""

\* After a failed save: the run has ended normally with the error on the page and
\* no success message, and both buttons can be clicked.
C5_FailedSaveState ==
    SaveFailed =>
        /\ pc = "idle"
        /\ Reported(msgs, "error", "save")
        /\ ~Reported(msgs, "success", "save")
        /\ holdings = edited
        /\ ENABLED ClickSave
        /\ ENABLED ClickRefresh

\* No step of a Save run changes the session's table.
C5_SaveLeavesHoldings == (run' = "save") => (holdings' = holdings /\ edited' = holdings')

\* Inside save_holdings the next sheet call can succeed, whatever failed before.
C5_SaveCanSucceed ==
    /\ pc = "save_clear" => ENABLED SaveClear(TRUE)
    /\ pc = "save_header" => ENABLED SaveHeader(TRUE)
    /\ pc = "save_rows" => ENABLED SaveRows(TRUE)

\* C5: a failing store call of save_holdings is caught and reported as an error
\* (the run ends normally), the session's table is unchanged by the save, and
\* Save and Refresh stay enabled, so that a later Save of the same table can succeed.
C5_SaveFailureIsCaught ==
    [] (C5_FailedSaveState /\ C5_SaveCanSucceed) /\ [][C5_SaveLeavesHoldings]_vars

\* The rows append has raised on a table of two rows.
C5_Witness == SaveFailed /\ saveFailedAt = "append_rows" /\ Len(holdings.vals) = 2

SaveCallOrder == <<"clear", "append_row", "append_rows">>

\* During and after a Save run: the calls made are clear, append_row, append_rows
\* in that order, none after one that raised; after a raising append_row the sheet
\* is empty, after a raising append_rows it holds only the header row.
C10_FailedSaveState ==
    run = "save" =>
        /\ Len(storeCalls) <= Len(SaveCallOrder)
        /\ storeCalls = SubSeq(SaveCallOrder, 1, Len(storeCalls))
        /\ saveFailedAt # "" =>
              /\ pc = "idle"
              /\ storeCalls # <<>>
              /\ storeCalls[Len(storeCalls)] = saveFailedAt
        /\ saveFailedAt = "append_row" => sheet = <<>>
        /\ saveFailedAt = "append_rows" => sheet = <<columns_tolist(edited)>>

\* A clear that raises leaves the sheet as the save found it.
C10_FailedClearKeepsSheet == (saveFailedAt = "" /\ saveFailedAt' = "clear") => sheet' = sheet

\* C10: save_holdings calls clear, append-header, append-rows in that order and
\* stops at the first that fails; after a failed save the sheet holds its previous
\* contents (clear failed), nothing (header append failed) or only the header row
\* (rows append failed), never some of the new data rows.
C10_FailedSaveLeavesNoPartialRows ==
    [] C10_FailedSaveState /\ [][C10_FailedClearKeepsSheet]_vars

\* The header append has raised: the clear before it has emptied the sheet, and
\* the rows of the table being saved are not in it.
C10_Witness ==
    /\ SaveFailed
    /\ saveFailedAt = "append_row"
    /\ sheet = <<>>
    /\ Len(edited.vals) > 0

====
